---- MODULE Spec2Model ----
(***************************************************************************)
(* Model of the assessment orchestrator: a timer-driven run() that selects *)
(* one queued trigger, crawls two sites, asks a hosted assistant for a     *)
(* report and persists the result.  Three revisions of the script live in  *)
(* the repository:                                                         *)
(*   "r1"  src/unnamed/part_000 lines 1-94   (no error handling at all)    *)
(*   "r2"  src/index.js                      (select error checked)        *)
(*   "r3"  src/unnamed/part_000 lines 96-227 (crawl and run() try/catch)   *)
(***************************************************************************)
EXTENDS Integers, Sequences, FiniteSets, TLC

\* ----- bounds of the model ------------------------------------------------
MaxTriggers == 2
MaxCycles == 2
MaxPages == 2
\* external calls that fail in one behaviour
MaxFaults == 2

Revisions == {"r1", "r2", "r3"}

\* ===== JavaScript values of a crawl response ==============================
\* A JS value as far as crawl() looks at it: its type tag and, for arrays,
\* its elements.
Undefined == [t |-> "undefined"]
Null == [t |-> "null"]
JsString(s) == [t |-> "string", s |-> s]
JsNumber(n) == [t |-> "number", n |-> n]
JsArray(es) == [t |-> "array", es |-> es]
\* a plain object of which only the 'pages' property matters
JsObject(pages) == [t |-> "object", pages |-> pages]
\* a crawled page
Page(title, url, text) == [t |-> "page", title |-> title, url |-> url, text |-> text]

\* JS truthiness: undefined, null, "" and 0 are falsy, objects and arrays truthy
Truthy(v) ==
    CASE v.t = "undefined" -> FALSE
      [] v.t = "null" -> FALSE
      [] v.t = "string" -> v.s # ""
      [] v.t = "number" -> v.n # 0
      [] OTHER -> TRUE

\* Array.isArray
IsArray(v) == v.t = "array"

\* v.pages: a TypeError on undefined and null, the property of an object,
\* undefined on anything else (arrays, strings and numbers have no 'pages')
Throws == [t |-> "throws"]
GetPages(v) ==
    CASE v.t \in {"undefined", "null"} -> Throws
      [] v.t = "object" -> v.pages
      [] OTHER -> Undefined

\* v?.[0]: undefined on undefined and null (short circuit), the first element
\* of an array, undefined on an empty array and on an object
OptIndex0(v) ==
    CASE v.t = "array" /\ Len(v.es) > 0 -> v.es[1]
      [] OTHER -> Undefined

\* v?.pages
OptPages(v) ==
    IF v.t \in {"undefined", "null"} THEN Undefined ELSE GetPages(v)

\* `## ${p.title} (${p.url})\n${p.text}`
RenderPage(p) == "## " \o p.title \o " (" \o p.url \o ")\n" \o p.text

\* pages.map(render).join('\n\n')
RECURSIVE JoinPages(_)
JoinPages(ps) ==
    IF Len(ps) = 0 THEN ""
    ELSE IF Len(ps) = 1 THEN RenderPage(ps[1])
    ELSE RenderPage(ps[1]) \o "\n\n" \o JoinPages(Tail(ps))

\* the map callback reads p.title: a TypeError when an element is null/undefined
MapThrows(ps) == \E i \in 1..Len(ps) : ps[i].t \in {"undefined", "null"}

SentinelFormat == "Crawl failed: no structured page content returned."
SentinelException == "Crawl failed: exception thrown."

Returned(s) == [kind |-> "return", value |-> s]
Raised == [kind |-> "throw"]

\* A crawl service answer: the POST rejects (transport failure) or resolves
\* with res.data
Rejects == [transport |-> "reject"]
Resolves(data) == [transport |-> "ok", data |-> data]

\* crawl() of r1 and r2: res.data.pages.map(...).join('\n\n'), nothing caught
crawlEarly(resp) ==
    IF resp.transport = "reject" THEN Raised
    ELSE LET pages == GetPages(resp.data) IN
         IF pages.t = "throws" THEN Raised
         ELSE IF ~IsArray(pages) THEN Raised      \* .map is not a function
         ELSE IF MapThrows(pages.es) THEN Raised
         ELSE Returned(JoinPages(pages.es))

\* const pages = res.data.pages || res.data?.[0]?.pages || [];
PickPages(data) ==
    LET top == GetPages(data) IN
    IF top.t = "throws" THEN Throws
    ELSE IF Truthy(top) THEN top
    ELSE LET nested == OptPages(OptIndex0(data)) IN
         IF Truthy(nested) THEN nested ELSE JsArray(<<>>)

\* crawl() of r3: the whole body in try/catch
crawlLate(resp) ==
    IF resp.transport = "reject" THEN Returned(SentinelException)
    ELSE LET pages == PickPages(resp.data) IN
         IF pages.t = "throws" THEN Returned(SentinelException)
         ELSE IF ~IsArray(pages) THEN Returned(SentinelFormat)
         ELSE IF MapThrows(pages.es) THEN Returned(SentinelException)
         ELSE Returned(JoinPages(pages.es))

crawl(rv, resp) == IF rv = "r3" THEN crawlLate(resp) ELSE crawlEarly(resp)

\* what crawl() writes with console.error on its two failure paths (r3 only)
NoLine == ""
crawlLogLine(rv, resp) ==
    IF rv # "r3" THEN NoLine
    ELSE IF crawlLate(resp).value = SentinelException THEN "Error calling Crawl4AI"
    ELSE IF crawlLate(resp).value = SentinelFormat
    THEN "Unexpected Crawl4AI response format"
    ELSE NoLine

\* ===== the store's trigger rows ===========================================
Triggers == 1..MaxTriggers
Cycles == 1..MaxCycles

\* The fields of trigger t (status is kept in the variable `status`)
TriggerRow(t) ==
    [id |-> t,
     investor_name |-> "Investor " \o ToString(t),
     investor_site |-> "https://investor" \o ToString(t) \o ".vc",
     company_name |-> "Company " \o ToString(t),
     company_url |-> "https://company" \o ToString(t) \o ".co",
     context |-> "Diligence " \o ToString(t),
     supplemental_links |-> <<"https://investor" \o ToString(t) \o ".vc/portfolio">>]

\* JSON.stringify of an array of strings
RECURSIVE JoinQuoted(_)
JoinQuoted(ls) ==
    IF Len(ls) = 0 THEN ""
    ELSE IF Len(ls) = 1 THEN "\"" \o ls[1] \o "\""
    ELSE "\"" \o ls[1] \o "\"," \o JoinQuoted(Tail(ls))
JSONstringify(ls) == "[" \o JoinQuoted(ls) \o "]"

\* (the template with the two crawled texts under each other's heading)
BuildPrompt_Swapped(tr, investorTxt, companyTxt) ==
    << "\nInvestor Profile Input:\n- PE/VC Firm Name: ", tr.investor_name,
       "\n- Website: ", tr.investor_site,
       "\n- Supplemental Links: ", JSONstringify(tr.supplemental_links),
       "\n\nTarget Company Input:\n- Company Name: ", tr.company_name,
       "\n- Website: ", tr.company_url,
       "\n- Assessment Context: ", tr.context,
       "\n\nExtracted Content:\n## Investor Pages\n", companyTxt,
       "\n\n## Company Pages\n", investorTxt, "\n" >>

\* The template literal of run(): its fixed pieces and its substitutions, in
\* order.  The JS string is the concatenation of the segments.
BuildPrompt(tr, investorTxt, companyTxt) ==
    << "\nInvestor Profile Input:\n- PE/VC Firm Name: ", tr.investor_name,
       "\n- Website: ", tr.investor_site,
       "\n- Supplemental Links: ", JSONstringify(tr.supplemental_links),
       "\n\nTarget Company Input:\n- Company Name: ", tr.company_name,
       "\n- Website: ", tr.company_url,
       "\n- Assessment Context: ", tr.context,
       "\n\nExtracted Content:\n## Investor Pages\n", investorTxt,
       "\n\n## Company Pages\n", companyTxt, "\n" >>

\* What the crawl service may answer for a site in the orchestration model:
\* one page, an object without 'pages', 'pages' that is no array, no answer
CrawlAnswers(url) ==
    { Resolves(JsObject(JsArray(<<Page("Home", url, "...")>>))),
      Resolves(JsObject(Undefined)),
      Resolves(JsObject(JsString("<html>"))),
      Rejects }

\* The assistant's reply text (opaque to the script)
AssistantReply == <<"{\"fit\":\"high\"}">>

\* Run statuses that are final and are not 'completed'
StuckStatuses == {"failed", "cancelled", "expired"}

\* confidence_score of the audit row
ConfidenceScore == 90

\* ===== state ==============================================================
VARIABLES
    rev,            \* which revision of the script is running
    alive,          \* the node process is running (timers fire, awaits resume)
    fired,          \* number of times the interval timer has invoked run()
    status,         \* CompanyAssessmentTrigger: trigger id -> status
    assessments,    \* CompanyAssessments rows, in insertion order
    auditLogs,      \* AuditLogs rows, in insertion order
    pc,             \* per cycle: the await the invocation is suspended at
    trig,           \* per cycle: id of the selected trigger (0: none)
    investorText,   \* per cycle: local investorText
    companyText,    \* per cycle: local companyText
    messages,       \* assistant service: per cycle's thread, newest first
    runStatus,      \* assistant service: status of the cycle's run
    result,         \* per cycle: local result / report
    io,             \* per cycle: the external calls issued, with their outcome
    console,        \* per cycle: what the invocation logged
    faults,         \* number of external calls that have failed so far
    crawlIn,        \* pure-function harness: a crawl answer
    crawlOut        \* pure-function harness: what crawl() made of it

runVars == <<rev, alive, fired, status, assessments, auditLogs, pc, trig,
             investorText, companyText, messages, runStatus, result, io, console, faults>>
crawlVars == <<crawlIn, crawlOut>>
vars == <<rev, alive, fired, status, assessments, auditLogs, pc, trig,
          investorText, companyText, messages, runStatus, result, io, console,
          faults, crawlIn, crawlOut>>

NoText == "<unset>"
NoResult == <<>>
Idle == [kind |-> "idle"]

Init ==
    /\ rev \in Revisions
    /\ alive = TRUE
    /\ fired = 0
    /\ \E n \in 0..MaxTriggers : status = [t \in 1..n |-> "queued"]
    /\ assessments = <<>>
    /\ auditLogs = <<>>
    /\ pc = [c \in Cycles |-> "idle"]
    /\ trig = [c \in Cycles |-> 0]
    /\ investorText = [c \in Cycles |-> NoText]
    /\ companyText = [c \in Cycles |-> NoText]
    /\ messages = [c \in Cycles |-> <<>>]
    /\ runStatus = [c \in Cycles |-> "none"]
    /\ result = [c \in Cycles |-> NoResult]
    /\ io = [c \in Cycles |-> <<>>]
    /\ console = [c \in Cycles |-> <<>>]
    /\ faults = 0
    /\ crawlIn = Rejects
    /\ crawlOut = Idle

\* ----- helpers of the actions --------------------------------------------
Call(op, res) == [op |-> op, res |-> res]
\* An external call that fails counts against the bound of the model
Failure(res) == res \in {"error", "reject", "malformed"}
Counted(res) ==
    IF Failure(res) THEN faults < MaxFaults /\ faults' = faults + 1
    ELSE UNCHANGED faults

\* The call log of a cycle.  The polls of the run's status are kept as one
\* entry, which holds the latest answer.
Issued(c, op, res) ==
    /\ io' = [io EXCEPT ![c] =
                 IF Len(@) > 0 /\ @[Len(@)].op = op /\ op = "runs.retrieve"
                 THEN [@ EXCEPT ![Len(@)] = Call(op, res)]
                 ELSE Append(@, Call(op, res))]
    /\ Counted(res)

Logs(c, line) == console' = [console EXCEPT ![c] = Append(@, line)]
Goto(c, label) == pc' = [pc EXCEPT ![c] = label]

\* run()'s promise rejects and nobody handles it: the runtime either only
\* warns (the process lives on) or raises it as an uncaught exception, which
\* ends the process and its timer
Unhandled(c) ==
    /\ Goto(c, "rejected")
    /\ alive' \in BOOLEAN
    /\ UNCHANGED console

\* (run() of r3 without its try block)
Thrown_Uncaught(c) == Unhandled(c)

\* an await inside r3's try block rejects: caught and logged; r1 and r2 have
\* no try block
Thrown(c) ==
    IF rev = "r3"
    THEN /\ Goto(c, "caught")
         /\ Logs(c, "OpenAI or Supabase write failed")
         /\ UNCHANGED alive
    ELSE Unhandled(c)

\* setInterval(run, ...): the timer invokes run() once more
TimerFire ==
    /\ alive
    /\ fired < MaxCycles
    /\ fired' = fired + 1
    /\ pc' = [pc EXCEPT ![fired + 1] = "select"]
    /\ UNCHANGED <<rev, alive, status, assessments, auditLogs, trig, investorText,
                   companyText, messages, runStatus, result, io, console, faults,
                   crawlVars>>

Queued == {t \in DOMAIN status : status[t] = "queued"}

\* (the error branch without its console.error, as r1 has it)
SelectError_Silent(c) ==
    /\ alive /\ pc[c] = "select"
    /\ Issued(c, "select", "error")
    /\ Goto(c, "returned")
    /\ UNCHANGED <<rev, alive, fired, status, assessments, auditLogs, trig, investorText,
                   companyText, messages, runStatus, result, console, crawlVars>>

\* select('*').eq('status','queued').limit(1) answers with an error
SelectError(c) ==
    /\ alive /\ pc[c] = "select"
    /\ Issued(c, "select", "error")
    /\ Goto(c, "returned")
    /\ IF rev = "r1" THEN UNCHANGED console ELSE Logs(c, "Supabase query error")
    /\ UNCHANGED <<rev, alive, fired, status, assessments, auditLogs, trig, investorText,
                   companyText, messages, runStatus, result, crawlVars>>

\* (a slip that would let an empty answer fall through to triggers[0])
SelectNone_FallsThrough(c) ==
    /\ alive /\ pc[c] = "select"
    /\ Queued = {}
    /\ Issued(c, "select", "ok")
    /\ Goto(c, "threadCreate")
    /\ UNCHANGED <<rev, alive, fired, status, assessments, auditLogs, trig, investorText,
                   companyText, messages, runStatus, result, console, crawlVars>>

\* ... answers with an empty list
SelectNone(c) ==
    /\ alive /\ pc[c] = "select"
    /\ Queued = {}
    /\ Issued(c, "select", "ok")
    /\ Goto(c, "returned")
    /\ UNCHANGED <<rev, alive, fired, status, assessments, auditLogs, trig, investorText,
                   companyText, messages, runStatus, result, console, crawlVars>>

\* (a select without its .eq('status', 'queued') filter)
SelectOne_AnyStatus(c, t) ==
    /\ alive /\ pc[c] = "select"
    /\ t \in DOMAIN status
    /\ Issued(c, "select", "ok")
    /\ trig' = [trig EXCEPT ![c] = t]
    /\ Goto(c, "crawlInvestor")
    /\ IF rev = "r1" THEN UNCHANGED console ELSE Logs(c, "Processing trigger")
    /\ UNCHANGED <<rev, alive, fired, status, assessments, auditLogs, investorText,
                   companyText, messages, runStatus, result, crawlVars>>

\* (a select that skips the triggers another running cycle holds)
SelectOne_Leased(c, t) ==
    /\ alive /\ pc[c] = "select"
    /\ t \in Queued
    /\ \A d \in Cycles \ {c} :
          trig[d] = t => pc[d] \in {"returned", "caught", "rejected"}
    /\ Issued(c, "select", "ok")
    /\ trig' = [trig EXCEPT ![c] = t]
    /\ Goto(c, "crawlInvestor")
    /\ IF rev = "r1" THEN UNCHANGED console ELSE Logs(c, "Processing trigger")
    /\ UNCHANGED <<rev, alive, fired, status, assessments, auditLogs, investorText,
                   companyText, messages, runStatus, result, crawlVars>>

\* ... answers with one queued row, whichever the store lists first
SelectOne(c, t) ==
    /\ alive /\ pc[c] = "select"
    /\ t \in Queued
    /\ Issued(c, "select", "ok")
    /\ trig' = [trig EXCEPT ![c] = t]
    /\ Goto(c, "crawlInvestor")
    /\ IF rev = "r1" THEN UNCHANGED console ELSE Logs(c, "Processing trigger")
    /\ UNCHANGED <<rev, alive, fired, status, assessments, auditLogs, investorText,
                   companyText, messages, runStatus, result, crawlVars>>

\* How a crawl answer is recorded in the cycle's call log: the transport
\* failed, or the body has a 'pages' array at the top level or under its
\* first array element, or is neither
AnswerShape(resp) ==
    IF resp.transport = "reject" THEN "reject"
    ELSE IF IsArray(OptPages(resp.data)) \/ IsArray(OptPages(OptIndex0(resp.data)))
    THEN "ok" ELSE "malformed"

\* (a run() that goes on to the assistant while the company crawl is pending)
CrawlInvestor_SkipsCompany(c, resp) ==
    /\ alive /\ pc[c] = "crawlInvestor"
    /\ resp \in CrawlAnswers(TriggerRow(trig[c]).investor_site)
    /\ Issued(c, "crawl investor_site", AnswerShape(resp))
    /\ LET r == crawl(rev, resp) IN
       IF r.kind = "return"
       THEN /\ investorText' = [investorText EXCEPT ![c] = r.value]
            /\ Goto(c, "threadCreate")
            /\ UNCHANGED <<alive, console>>
       ELSE /\ Unhandled(c)
            /\ UNCHANGED investorText
    /\ UNCHANGED <<rev, fired, status, assessments, auditLogs, trig, companyText,
                   messages, runStatus, result, crawlVars>>

\* const investorText = await crawl(trigger.investor_site)
CrawlInvestor(c, resp) ==
    /\ alive /\ pc[c] = "crawlInvestor"
    /\ resp \in CrawlAnswers(TriggerRow(trig[c]).investor_site)
    /\ Issued(c, "crawl investor_site", AnswerShape(resp))
    /\ LET r == crawl(rev, resp) IN
       IF r.kind = "return"
       THEN /\ investorText' = [investorText EXCEPT ![c] = r.value]
            /\ Goto(c, "crawlCompany")
            /\ IF crawlLogLine(rev, resp) = NoLine THEN UNCHANGED console
               ELSE Logs(c, crawlLogLine(rev, resp))
            /\ UNCHANGED alive
       ELSE /\ Unhandled(c)
            /\ UNCHANGED investorText
    /\ UNCHANGED <<rev, fired, status, assessments, auditLogs, trig, companyText,
                   messages, runStatus, result, crawlVars>>

\* const companyText = await crawl(trigger.company_url)
CrawlCompany(c, resp) ==
    /\ alive /\ pc[c] = "crawlCompany"
    /\ resp \in CrawlAnswers(TriggerRow(trig[c]).company_url)
    /\ Issued(c, "crawl company_url", AnswerShape(resp))
    /\ LET r == crawl(rev, resp) IN
       IF r.kind = "return"
       THEN /\ companyText' = [companyText EXCEPT ![c] = r.value]
            /\ Goto(c, "threadCreate")
            /\ IF crawlLogLine(rev, resp) = NoLine THEN UNCHANGED console
               ELSE Logs(c, crawlLogLine(rev, resp))
            /\ UNCHANGED alive
       ELSE /\ Unhandled(c)
            /\ UNCHANGED companyText
    /\ UNCHANGED <<rev, fired, status, assessments, auditLogs, trig, investorText,
                   messages, runStatus, result, crawlVars>>

CallOutcomes == {"ok", "reject"}

\* const thread = await openai.beta.threads.create()
ThreadCreate(c, o) ==
    /\ alive /\ pc[c] = "threadCreate"
    /\ o \in CallOutcomes
    /\ Issued(c, "threads.create", o)
    /\ IF o = "ok"
       THEN Goto(c, "messageCreate") /\ UNCHANGED <<alive, console>>
       ELSE Thrown(c)
    /\ UNCHANGED <<rev, fired, status, assessments, auditLogs, trig, investorText,
                   companyText, messages, runStatus, result, crawlVars>>

UserMessage(text) == [role |-> "user", text |-> text]
AssistantMessage(text) == [role |-> "assistant", text |-> text]

\* await openai.beta.threads.messages.create(thread.id, {role: "user", content: prompt})
MessageCreate(c, o) ==
    /\ alive /\ pc[c] = "messageCreate"
    /\ o \in CallOutcomes
    /\ Issued(c, "messages.create", o)
    /\ IF o = "ok"
       THEN /\ messages' = [messages EXCEPT ![c] =
                   <<UserMessage(BuildPrompt(TriggerRow(trig[c]), investorText[c],
                                             companyText[c]))>> \o @]
            /\ Goto(c, "runCreate")
            /\ UNCHANGED <<alive, console>>
       ELSE Thrown(c) /\ UNCHANGED messages
    /\ UNCHANGED <<rev, fired, status, assessments, auditLogs, trig, investorText,
                   companyText, runStatus, result, crawlVars>>

\* const run = await openai.beta.threads.runs.create(thread.id, {assistant_id})
RunCreate(c, o) ==
    /\ alive /\ pc[c] = "runCreate"
    /\ o \in CallOutcomes
    /\ Issued(c, "runs.create", o)
    /\ IF o = "ok"
       THEN /\ runStatus' = [runStatus EXCEPT ![c] = "in_progress"]
            /\ Goto(c, "retrieve")
            /\ UNCHANGED <<alive, console>>
       ELSE Thrown(c) /\ UNCHANGED runStatus
    /\ UNCHANGED <<rev, fired, status, assessments, auditLogs, trig, investorText,
                   companyText, messages, result, crawlVars>>

\* The assistant service finishes the run and adds its reply to the thread
RunCompletes(c) ==
    /\ runStatus[c] = "in_progress"
    /\ runStatus' = [runStatus EXCEPT ![c] = "completed"]
    /\ messages' = [messages EXCEPT ![c] = <<AssistantMessage(AssistantReply)>> \o @]
    /\ UNCHANGED <<rev, alive, fired, status, assessments, auditLogs, pc, trig,
                   investorText, companyText, result, io, console, faults, crawlVars>>

\* The assistant service ends the run in a final status other than 'completed'
RunStalls(c, s) ==
    /\ runStatus[c] = "in_progress"
    /\ s \in StuckStatuses
    /\ faults < MaxFaults
    /\ faults' = faults + 1
    /\ runStatus' = [runStatus EXCEPT ![c] = s]
    /\ UNCHANGED <<rev, alive, fired, status, assessments, auditLogs, pc, trig,
                   investorText, companyText, messages, result, io, console, crawlVars>>

\* (a run() that polls once and does not wait for 'completed')
Retrieve_NoWait(c, o) ==
    /\ alive /\ pc[c] = "retrieve"
    /\ o \in CallOutcomes
    /\ IF o = "ok"
       THEN /\ Issued(c, "runs.retrieve", runStatus[c])
            /\ Goto(c, "list")
            /\ UNCHANGED <<alive, console>>
       ELSE Issued(c, "runs.retrieve", o) /\ Thrown(c)
    /\ UNCHANGED <<rev, fired, status, assessments, auditLogs, trig, investorText,
                   companyText, messages, runStatus, result, crawlVars>>

\* (a polling loop that leaves on every final status)
Retrieve_BreaksOnFinal(c, o) ==
    /\ alive /\ pc[c] = "retrieve"
    /\ o \in CallOutcomes
    /\ IF o = "ok"
       THEN /\ Issued(c, "runs.retrieve", runStatus[c])
            /\ Goto(c, IF runStatus[c] # "in_progress" THEN "list" ELSE "sleep")
            /\ UNCHANGED <<alive, console>>
       ELSE Issued(c, "runs.retrieve", o) /\ Thrown(c)
    /\ UNCHANGED <<rev, fired, status, assessments, auditLogs, trig, investorText,
                   companyText, messages, runStatus, result, crawlVars>>

\* const status = await runs.retrieve(thread.id, run.id);
\* if (status.status === 'completed') break;
Retrieve(c, o) ==
    /\ alive /\ pc[c] = "retrieve"
    /\ o \in CallOutcomes
    /\ IF o = "ok"
       THEN /\ Issued(c, "runs.retrieve", runStatus[c])
            /\ Goto(c, IF runStatus[c] = "completed" THEN "list" ELSE "sleep")
            /\ UNCHANGED <<alive, console>>
       ELSE Issued(c, "runs.retrieve", o) /\ Thrown(c)
    /\ UNCHANGED <<rev, fired, status, assessments, auditLogs, trig, investorText,
                   companyText, messages, runStatus, result, crawlVars>>

\* await new Promise((r) => setTimeout(r, 2000))
Sleep(c) ==
    /\ alive /\ pc[c] = "sleep"
    /\ Goto(c, "retrieve")
    /\ UNCHANGED <<rev, alive, fired, status, assessments, auditLogs, trig, investorText,
                   companyText, messages, runStatus, result, io, console, faults,
                   crawlVars>>

\* const messages = await messages.list(thread.id);
\* const result = messages.data[0].content[0].text.value;
List(c, o) ==
    /\ alive /\ pc[c] = "list"
    /\ o \in CallOutcomes
    /\ Issued(c, "messages.list", o)
    /\ IF o = "ok"
       THEN /\ result' = [result EXCEPT ![c] = messages[c][1].text]
            /\ Goto(c, "insertReport")
            /\ UNCHANGED <<alive, console>>
       ELSE Thrown(c) /\ UNCHANGED result
    /\ UNCHANGED <<rev, fired, status, assessments, auditLogs, trig, investorText,
                   companyText, messages, runStatus, crawlVars>>

\* ----- the write phase ----------------------------------------------------
\* A store write resolves with the row written, resolves with an error value
\* (which run() never reads), or rejects
WriteOutcomes == {"ok", "error", "reject"}

ReportRow(tr, res) ==
    [investor_name |-> tr.investor_name,
     investor_site |-> tr.investor_site,
     company_name |-> tr.company_name,
     company_url |-> tr.company_url,
     context |-> tr.context,
     report_json |-> res]

AuditRow(rv, tr) ==
    [action |-> "Assessment Complete",
     source_url |-> tr.company_url,
     confidence_score |-> ConfidenceScore,
     details |-> IF rv = "r3" THEN "Assessment stored successfully" ELSE "Report stored"]

\* The statement that follows each write: r1 updates the status before it
\* writes the audit row, r2 and r3 after
AfterReport_StatusFirst(rv) == "updateStatus"
AfterReport(rv) == IF rv = "r1" THEN "updateStatus" ELSE "insertAudit"
AfterAudit(rv) == IF rv = "r1" THEN "returned" ELSE "updateStatus"
AfterStatus(rv) == IF rv = "r1" THEN "insertAudit" ELSE "returned"

\* run() logs its success after the last statement (r2 and r3)
Continue(c, label) ==
    /\ Goto(c, label)
    /\ IF label = "returned" /\ rev # "r1"
       THEN Logs(c, "Assessment complete") ELSE UNCHANGED console
    /\ UNCHANGED alive

\* (a cycle that works on every row the select could have answered with)
IsQueued(t) == t \in DOMAIN status /\ status[t] = "queued"
InsertReport_EveryQueued(c, o) ==
    /\ alive /\ pc[c] = "insertReport"
    /\ o \in WriteOutcomes
    /\ Issued(c, "insert CompanyAssessments", o)
    /\ assessments' =
          IF o = "ok"
          THEN assessments \o
               [i \in 1..Len(SelectSeq([t \in 1..MaxTriggers |-> t], IsQueued)) |->
                   ReportRow(TriggerRow(SelectSeq([t \in 1..MaxTriggers |-> t], IsQueued)[i]),
                             result[c])]
          ELSE assessments
    /\ IF o = "reject" THEN Thrown(c) ELSE Continue(c, AfterReport(rev))
    /\ UNCHANGED <<rev, fired, status, auditLogs, trig, investorText, companyText,
                   messages, runStatus, result, crawlVars>>

\* await supabase.from('CompanyAssessments').insert([{...}])
InsertReport(c, o) ==
    /\ alive /\ pc[c] = "insertReport"
    /\ o \in WriteOutcomes
    /\ Issued(c, "insert CompanyAssessments", o)
    /\ assessments' = IF o = "ok"
                      THEN Append(assessments, ReportRow(TriggerRow(trig[c]), result[c]))
                      ELSE assessments
    /\ IF o = "reject" THEN Thrown(c) ELSE Continue(c, AfterReport(rev))
    /\ UNCHANGED <<rev, fired, status, auditLogs, trig, investorText, companyText,
                   messages, runStatus, result, crawlVars>>

\* await supabase.from('AuditLogs').insert([{...}])
InsertAudit(c, o) ==
    /\ alive /\ pc[c] = "insertAudit"
    /\ o \in WriteOutcomes
    /\ Issued(c, "insert AuditLogs", o)
    /\ auditLogs' = IF o = "ok"
                    THEN Append(auditLogs, AuditRow(rev, TriggerRow(trig[c])))
                    ELSE auditLogs
    /\ IF o = "reject" THEN Thrown(c) ELSE Continue(c, AfterAudit(rev))
    /\ UNCHANGED <<rev, fired, status, assessments, trig, investorText, companyText,
                   messages, runStatus, result, crawlVars>>

\* (an update without its .eq('id', trigger.id) filter)
UpdateStatus_NoFilter(c, o) ==
    /\ alive /\ pc[c] = "updateStatus"
    /\ o \in WriteOutcomes
    /\ Issued(c, "update CompanyAssessmentTrigger", o)
    /\ status' = IF o = "ok" THEN [t \in DOMAIN status |-> "complete"] ELSE status
    /\ IF o = "reject" THEN Thrown(c) ELSE Continue(c, AfterStatus(rev))
    /\ UNCHANGED <<rev, fired, assessments, auditLogs, trig, investorText, companyText,
                   messages, runStatus, result, crawlVars>>

\* await supabase.from('CompanyAssessmentTrigger').update({status: 'complete'}).eq('id', trigger.id)
UpdateStatus(c, o) ==
    /\ alive /\ pc[c] = "updateStatus"
    /\ o \in WriteOutcomes
    /\ Issued(c, "update CompanyAssessmentTrigger", o)
    /\ status' = IF o = "ok"
                 THEN [t \in DOMAIN status |-> IF t = trig[c] THEN "complete" ELSE status[t]]
                 ELSE status
    /\ IF o = "reject" THEN Thrown(c) ELSE Continue(c, AfterStatus(rev))
    /\ UNCHANGED <<rev, fired, assessments, auditLogs, trig, investorText, companyText,
                   messages, runStatus, result, crawlVars>>

\* ----- the orchestration --------------------------------------------------
Step(c) ==
    \/ SelectError(c)
    \/ SelectNone(c)
    \/ \E t \in Triggers : SelectOne(c, t)
    \/ \E resp \in CrawlAnswers(TriggerRow(trig[c]).investor_site) : CrawlInvestor(c, resp)
    \/ \E resp \in CrawlAnswers(TriggerRow(trig[c]).company_url) : CrawlCompany(c, resp)
    \/ \E o \in CallOutcomes : ThreadCreate(c, o)
    \/ \E o \in CallOutcomes : MessageCreate(c, o)
    \/ \E o \in CallOutcomes : RunCreate(c, o)
    \/ \E o \in CallOutcomes : Retrieve(c, o)
    \/ Sleep(c)
    \/ \E o \in CallOutcomes : List(c, o)
    \/ \E o \in WriteOutcomes : InsertReport(c, o)
    \/ \E o \in WriteOutcomes : InsertAudit(c, o)
    \/ \E o \in WriteOutcomes : UpdateStatus(c, o)

Service(c) ==
    \/ RunCompletes(c)
    \/ \E s \in StuckStatuses : RunStalls(c, s)

Next ==
    \/ TimerFire
    \/ \E c \in Cycles : Step(c)
    \/ \E c \in Cycles : Service(c)

Spec == Init /\ [][Next]_vars

\* ===== crawl() on its own =================================================
\* The pages a crawl answer is built from
SamplePages ==
    { Page("Home", "https://acme.vc", "alpha"),
      Page("About", "https://acme.vc/about", "beta") }

RECURSIVE SeqsUpTo(_, _)
SeqsUpTo(S, n) ==
    IF n = 0 THEN {<<>>}
    ELSE LET shorter == SeqsUpTo(S, n - 1) IN
         shorter \cup {Append(q, x) : q \in shorter, x \in S}

\* What a 'pages' property may hold
PagesValues ==
    {Undefined, Null, JsString(""), JsString("<html>"), JsNumber(0), JsNumber(7),
     JsObject(Undefined), JsArray(<<Null>>)}
    \cup {JsArray(ps) : ps \in SeqsUpTo(SamplePages, MaxPages)}

\* What res.data may be
DataValues ==
    {Undefined, Null, JsString("<html>"), JsArray(<<>>), JsArray(<<Null>>)}
    \cup {JsObject(pv) : pv \in PagesValues}
    \cup {JsArray(<<JsObject(pv)>>) : pv \in PagesValues}
    \cup {JsArray(<<JsObject(Undefined), JsObject(pv)>>) : pv \in PagesValues}

CrawlInputs == {Rejects} \cup {Resolves(d) : d \in DataValues}

InitCrawl ==
    /\ rev \in Revisions
    /\ alive = TRUE
    /\ fired = 0
    /\ status = [t \in Triggers |-> "queued"]
    /\ assessments = <<>>
    /\ auditLogs = <<>>
    /\ pc = [c \in Cycles |-> "idle"]
    /\ trig = [c \in Cycles |-> 0]
    /\ investorText = [c \in Cycles |-> NoText]
    /\ companyText = [c \in Cycles |-> NoText]
    /\ messages = [c \in Cycles |-> <<>>]
    /\ runStatus = [c \in Cycles |-> "none"]
    /\ result = [c \in Cycles |-> NoResult]
    /\ io = [c \in Cycles |-> <<>>]
    /\ console = [c \in Cycles |-> <<>>]
    /\ faults = 0
    /\ crawlIn \in CrawlInputs
    /\ crawlOut = Idle

\* crawl(url) is called and the service answers crawlIn
CallCrawl ==
    /\ crawlOut = Idle
    /\ crawlOut' = crawl(rev, crawlIn)
    /\ UNCHANGED <<runVars, crawlIn>>

NextCrawl == CallCrawl

SpecCrawl == InitCrawl /\ [][NextCrawl]_vars

\* ===== properties =========================================================
\* ----- shapes of a crawl answer ------------------------------------------
AllPages(v) == IsArray(v) /\ \A i \in 1..Len(v.es) : v.es[i].t = "page"
\* a top-level 'pages' array
ShapeTop(resp) == resp.transport = "ok" /\ AllPages(OptPages(resp.data))
\* a 'pages' array under the first element of an array
ShapeNested(resp) ==
    /\ resp.transport = "ok"
    /\ resp.data.t = "array"
    /\ AllPages(OptPages(OptIndex0(resp.data)))
\* no 'pages' array at either place
ShapeMalformed(resp) ==
    /\ resp.transport = "ok"
    /\ ~IsArray(OptPages(resp.data))
    /\ ~IsArray(OptPages(OptIndex0(resp.data)))

\* C8: crawl(url) of the later revision, by the shape of the answer: a
\* top-level 'pages' array and a 'pages' array under the first array element
\* both give the pages rendered as '## title (url)\ntext' and joined by a
\* blank line ('' for no pages); every malformed shape gives the sentinel
\* failure string, and nothing is raised.
C8_CrawlByShape ==
    (rev = "r3" /\ crawlOut.kind # "idle") =>
        /\ ShapeTop(crawlIn) =>
              crawlOut = Returned(JoinPages(OptPages(crawlIn.data).es))
        /\ ShapeNested(crawlIn) =>
              crawlOut = Returned(JoinPages(OptPages(OptIndex0(crawlIn.data)).es))
        /\ ShapeMalformed(crawlIn) =>
              /\ crawlOut.kind = "return"
              /\ crawlOut.value \in {SentinelFormat, SentinelException}

\* ----- reading a cycle's call log ----------------------------------------
WriteOps == {"insert CompanyAssessments", "insert AuditLogs",
             "update CompanyAssessmentTrigger"}
AssistantOps == {"threads.create", "messages.create", "runs.create",
                 "runs.retrieve", "messages.list"}
CrawlOps == {"crawl investor_site", "crawl company_url"}

Ended(c) == pc[c] \in {"returned", "caught", "rejected"}
Ops(c) == [i \in 1..Len(io[c]) |-> io[c][i].op]
IsWrite(op) == op \in WriteOps
\* the store writes the cycle issued, in order
WritesOf(c) == SelectSeq(Ops(c), IsWrite)
Did(c, op, res) == \E i \in 1..Len(io[c]) : io[c][i] = Call(op, res)
Tried(c, op) == \E i \in 1..Len(io[c]) : io[c][i].op = op
FailedCall(c) == \E i \in 1..Len(io[c]) : Failure(io[c][i].res)

RECURSIVE CountRows(_, _)
CountRows(rows, row) ==
    IF rows = <<>> THEN 0
    ELSE (IF Head(rows) = row THEN 1 ELSE 0) + CountRows(Tail(rows), row)

\* the cycle selected a trigger, every call of it succeeded, the run was seen
\* 'completed', and run() has returned
CleanCycle(c) ==
    /\ pc[c] = "returned"
    /\ trig[c] # 0
    /\ ~FailedCall(c)
    /\ Did(c, "runs.retrieve", "completed")

\* the cycle wrote exactly one report and one audit row, both are in the
\* store, and the trigger is 'complete'
WroteOnce(c) ==
    /\ Len(WritesOf(c)) = 3
    /\ Did(c, "insert CompanyAssessments", "ok")
    /\ Did(c, "insert AuditLogs", "ok")
    /\ Did(c, "update CompanyAssessmentTrigger", "ok")
    /\ CountRows(assessments, ReportRow(TriggerRow(trig[c]), result[c])) >= 1
    /\ CountRows(auditLogs, AuditRow(rev, TriggerRow(trig[c]))) >= 1
    /\ status[trig[c]] = "complete"

OrderReportAuditStatus ==
    <<"insert CompanyAssessments", "insert AuditLogs", "update CompanyAssessmentTrigger">>
OrderReportStatusAudit ==
    <<"insert CompanyAssessments", "update CompanyAssessmentTrigger", "insert AuditLogs">>

\* C1 as stated: in every revision a cycle whose calls all succeed writes one
\* report row and one audit row and marks the trigger 'complete', in the
\* order report insert, audit insert, status update.
C1_OrderEveryRevision ==
    \A c \in Cycles :
        CleanCycle(c) => WroteOnce(c) /\ WritesOf(c) = OrderReportAuditStatus

\* C1 amended: a cycle whose calls all succeed writes one report row and one
\* audit row and marks the trigger 'complete'; the order is report insert,
\* audit insert, status update in r2 and r3, and report insert, status update,
\* audit insert in r1.
C1_OrderByRevision ==
    \A c \in Cycles :
        CleanCycle(c) =>
            /\ WroteOnce(c)
            /\ WritesOf(c) = IF rev = "r1" THEN OrderReportStatusAudit
                             ELSE OrderReportAuditStatus

\* a cycle of r2 or r3 ran clean to its end
C1_Witness == \E c \in Cycles : CleanCycle(c) /\ rev # "r1"

\* C2: a cycle whose select finds no queued trigger issues no crawl, no
\* assistant call and no store write, and returns.
C2_EmptySelectDoesNothing ==
    \A c \in Cycles :
        (Did(c, "select", "ok") /\ trig[c] = 0) =>
            /\ io[c] = <<Call("select", "ok")>>
            /\ pc[c] = "returned"
            /\ messages[c] = <<>> /\ runStatus[c] = "none"

\* a cycle has polled a store whose only triggers are 'complete'
C2_Witness ==
    \E c \in Cycles :
        /\ Did(c, "select", "ok") /\ trig[c] = 0 /\ pc[c] = "returned"
        /\ \E t \in DOMAIN status : status[t] = "complete"

FailedWrite(c, op) == Did(c, op, "error") \/ Did(c, op, "reject")
FailedAssistant(c) ==
    \E i \in 1..Len(io[c]) : io[c][i].op \in AssistantOps /\ io[c][i].res = "reject"
FailedCrawl(c, op) == Did(c, op, "malformed") \/ Did(c, op, "reject")

\* the trigger of cycle c is still 'queued', unless another cycle that
\* selected the same trigger has marked it
LeftQueued(c) ==
    \/ status[trig[c]] = "queued"
    \/ \E d \in Cycles \ {c} :
          trig[d] = trig[c] /\ Did(d, "update CompanyAssessmentTrigger", "ok")

\* a cycle that polls can select every trigger that is still 'queued'
CanSelectQueued ==
    \A d \in Cycles : \A t \in Triggers :
        (alive /\ pc[d] = "select" /\ t \in Queued) => ENABLED SelectOne(d, t)

\* C3 as stated, for r2 and r3: when the report insert fails, or the audit
\* insert fails after the report insert succeeded, the cycle does not update
\* the trigger's status.
C3_FailedWriteSkipsUpdate ==
    rev \in {"r2", "r3"} =>
        \A c \in Cycles :
            (\/ FailedWrite(c, "insert CompanyAssessments")
             \/ (Did(c, "insert CompanyAssessments", "ok")
                    /\ FailedWrite(c, "insert AuditLogs")))
            => ~Tried(c, "update CompanyAssessmentTrigger")

\* C4: nothing keeps a polling cycle from selecting a trigger that another
\* cycle has selected and not yet marked; two cycles that both ran clean on
\* one trigger leave two report rows and two audit rows for it.
C4_DoubleClaim ==
    /\ CanSelectQueued
    /\ \A c \in Cycles : \A d \in Cycles \ {c} :
          (CleanCycle(c) /\ CleanCycle(d) /\ trig[c] = trig[d]) =>
              /\ CountRows(assessments, ReportRow(TriggerRow(trig[c]), result[c])) >= 2
              /\ CountRows(auditLogs, AuditRow(rev, TriggerRow(trig[c]))) >= 2

\* two overlapping cycles processed the same trigger to the end
C4_Witness ==
    \E c \in Cycles : \E d \in Cycles \ {c} :
        /\ CleanCycle(c) /\ CleanCycle(d) /\ trig[c] = trig[d]
        /\ CountRows(assessments, ReportRow(TriggerRow(trig[c]), result[c])) = 2
        /\ CountRows(auditLogs, AuditRow(rev, TriggerRow(trig[c]))) = 2

\* the run of cycle c has ended in a status that is not 'completed'
Stalled(c) == runStatus[c] \in StuckStatuses

StalledCycleInv ==
    \A c \in Cycles :
        Stalled(c) =>
            /\ pc[c] \in {"retrieve", "sleep", "caught", "rejected"}
            /\ pc[c] \in {"caught", "rejected"} => Did(c, "runs.retrieve", "reject")
            /\ WritesOf(c) = <<>>
            /\ LeftQueued(c)
            /\ (alive /\ fired < MaxCycles) => ENABLED TimerFire
            /\ CanSelectQueued

StalledForGood ==
    \A c \in Cycles : Stalled(c) => runStatus'[c] = runStatus[c]

\* C5: once the run of a cycle is in a final status other than 'completed',
\* the status never changes and the cycle stays in its polling loop (only a
\* failing retrieve call ends it): it issues no store write and leaves the
\* trigger 'queued', and neither the timer nor the other cycles wait for it.
C5_StalledRunPollsForever == [](StalledCycleInv) /\ [][StalledForGood]_vars

\* a cycle is stuck polling while a cycle started after it ran to its end
C5_Witness ==
    \E c \in Cycles : \E d \in Cycles :
        /\ c < d
        /\ Stalled(c) /\ pc[c] \in {"retrieve", "sleep"}
        /\ Did(c, "runs.retrieve", runStatus[c])
        /\ CleanCycle(d)

\* C6 as stated: in every revision, after a cycle that ended in a failed
\* call the timer still invokes run().
C6_TimerSurvivesFailure ==
    \A c \in Cycles :
        (Ended(c) /\ FailedCall(c) /\ fired < MaxCycles) => ENABLED TimerFire

\* C7 as stated: a cycle whose select answers with an error logs it and
\* returns with no other call made; a polling cycle can select the trigger.
C7_SelectErrorLogged ==
    \A c \in Cycles :
        Did(c, "select", "error") =>
            /\ console[c] = <<"Supabase query error">>
            /\ io[c] = <<Call("select", "error")>>
            /\ pc[c] = "returned" /\ trig[c] = 0
            /\ messages[c] = <<>> /\ runStatus[c] = "none"
            /\ CanSelectQueued

\* C7 amended: a cycle whose select answers with an error returns with no
\* other call made, having logged the error in r2 and r3 and nothing in r1;
\* a polling cycle can select the trigger.
C7_SelectErrorAborts ==
    \A c \in Cycles :
        Did(c, "select", "error") =>
            /\ console[c] = IF rev = "r1" THEN <<>> ELSE <<"Supabase query error">>
            /\ io[c] = <<Call("select", "error")>>
            /\ pc[c] = "returned" /\ trig[c] = 0
            /\ messages[c] = <<>> /\ runStatus[c] = "none"
            /\ CanSelectQueued

\* after a cycle's select failed, a later cycle processed a trigger
C7_Witness ==
    \E c \in Cycles : \E d \in Cycles :
        /\ c < d
        /\ Did(c, "select", "error") /\ pc[c] = "returned"
        /\ CleanCycle(d)

\* C9 as stated: in r3 a crawl that meets a transport failure or a malformed
\* answer hands back a sentinel string and the cycle goes on with it, the
\* prompt holding the sentinel; in r1 and r2 the failure ends the cycle
\* before any assistant call or write, the trigger left 'queued'.
Sentinels == {SentinelFormat, SentinelException}
PromptOf(c) == messages[c][Len(messages[c])].text
C9_CrawlFailureNotFatal ==
    \A c \in Cycles :
        IF rev = "r3"
        THEN /\ FailedCrawl(c, "crawl investor_site") =>
                  /\ investorText[c] \in Sentinels
                  /\ Did(c, "messages.create", "ok") => PromptOf(c)[14] = investorText[c]
             /\ FailedCrawl(c, "crawl company_url") =>
                  /\ companyText[c] \in Sentinels
                  /\ Did(c, "messages.create", "ok") => PromptOf(c)[16] = companyText[c]
             /\ pc[c] # "rejected"
        ELSE (FailedCrawl(c, "crawl investor_site") \/ FailedCrawl(c, "crawl company_url")) =>
                  /\ pc[c] = "rejected"
                  /\ \A i \in 1..Len(io[c]) : io[c][i].op \notin AssistantOps \cup WriteOps
                  /\ LeftQueued(c)

\* C10: in r3 a cycle in which an assistant call raises ends in the catch
\* block, which logs the error; the cycle issues no store write and leaves the
\* trigger 'queued', and a polling cycle can select it again.
C10_AssistantFailureCaught ==
    rev = "r3" =>
        \A c \in Cycles :
            FailedAssistant(c) =>
                /\ pc[c] = "caught"
                /\ console[c][Len(console[c])] = "OpenAI or Supabase write failed"
                /\ WritesOf(c) = <<>>
                /\ assessments = <<>> \/ \E d \in Cycles \ {c} : Did(d, "insert CompanyAssessments", "ok")
                /\ LeftQueued(c)
                /\ CanSelectQueued

\* after a cycle's assistant call failed, a later cycle processed its trigger
C10_Witness ==
    /\ rev = "r3"
    /\ \E c \in Cycles : \E d \in Cycles :
          /\ c < d
          /\ FailedAssistant(c) /\ pc[c] = "caught"
          /\ CleanCycle(d) /\ trig[d] = trig[c]

\* ----- rows and calls per trigger ----------------------------------------
CountOp(c, op) == Cardinality({i \in 1..Len(io[c]) : io[c][i].op = op})
\* the report rows that carry the fields of trigger t
ReportsFor(t) ==
    Cardinality({i \in 1..Len(assessments) :
        /\ assessments[i].investor_name = TriggerRow(t).investor_name
        /\ assessments[i].investor_site = TriggerRow(t).investor_site
        /\ assessments[i].company_name = TriggerRow(t).company_name
        /\ assessments[i].company_url = TriggerRow(t).company_url
        /\ assessments[i].context = TriggerRow(t).context})
AuditsFor(t) ==
    Cardinality({i \in 1..Len(auditLogs) :
        auditLogs[i].source_url = TriggerRow(t).company_url})
\* the cycles that selected trigger t and had the call answered with ok
CyclesThat(t, op) == {c \in Cycles : trig[c] = t /\ Did(c, op, "ok")}

\* C11: one invocation of run() issues one select, holds at most one trigger
\* and issues each of the three writes at most once; every report row and
\* audit row in the store, and every 'complete' status, belongs to the one
\* trigger of a cycle that wrote it, however many triggers are queued.
C11_OneTriggerPerCycle ==
    /\ \A c \in Cycles :
          /\ CountOp(c, "select") <= 1
          /\ \A op \in WriteOps : CountOp(c, op) <= 1
          /\ trig[c] = 0 => \A i \in 1..Len(io[c]) : io[c][i].op = "select"
          /\ trig[c] # 0 => trig[c] \in DOMAIN status /\ Did(c, "select", "ok")
    /\ \A t \in Triggers :
          /\ ReportsFor(t) = Cardinality(CyclesThat(t, "insert CompanyAssessments"))
          /\ AuditsFor(t) = Cardinality(CyclesThat(t, "insert AuditLogs"))
          /\ (t \in DOMAIN status /\ status[t] = "complete") =>
                 CyclesThat(t, "update CompanyAssessmentTrigger") # {}
    /\ Len(assessments) <= Cardinality({c \in Cycles : trig[c] # 0})

\* with two triggers queued, a cycle ran to its end and wrote for one of them
\* only
C11_Witness ==
    \E c \in Cycles : \E t \in DOMAIN status :
        /\ CleanCycle(c) /\ trig[c] # t
        /\ status[t] = "queued" /\ status[trig[c]] = "complete"
        /\ ReportsFor(trig[c]) = 1 /\ ReportsFor(t) = 0 /\ AuditsFor(t) = 0

\* ----- the prompt ---------------------------------------------------------
HasSegment(p, x) == \E i \in 1..Len(p) : p[i] = x
\* the piece of the template that ends in the heading is followed by the blob
Under(p, heading, blob) ==
    /\ \E i \in 1..(Len(p) - 1) : p[i] = heading
    /\ \A i \in 1..(Len(p) - 1) : p[i] = heading => p[i + 1] = blob
InvestorHeading == "\n\nExtracted Content:\n## Investor Pages\n"
CompanyHeading == "\n\n## Company Pages\n"
\* the supplemental links of trigger t as JSON text
LinksJson(t) == "[\"https://investor" \o ToString(t) \o ".vc/portfolio\"]"
UserMessages(c) == {i \in 1..Len(messages[c]) : messages[c][i].role = "user"}

\* C12: the one user message of a cycle's thread is the prompt, which holds
\* the trigger's investor name, investor site, company URL, JSON-serialized
\* supplemental links and context, the investor text right under
\* '## Investor Pages' and the company text right under '## Company Pages'.
C12_PromptContents ==
    \A c \in Cycles :
        Did(c, "messages.create", "ok") =>
            LET p == PromptOf(c)
                tr == TriggerRow(trig[c]) IN
            /\ Cardinality(UserMessages(c)) = 1
            /\ messages[c][Len(messages[c])].role = "user"
            /\ HasSegment(p, tr.investor_name)
            /\ HasSegment(p, tr.investor_site)
            /\ HasSegment(p, tr.company_url)
            /\ HasSegment(p, LinksJson(trig[c]))
            /\ HasSegment(p, tr.context)
            /\ Under(p, InvestorHeading, investorText[c])
            /\ Under(p, CompanyHeading, companyText[c])

\* a prompt was posted that carries the crawled pages of both sites
C12_Witness ==
    \E c \in Cycles :
        /\ Did(c, "messages.create", "ok")
        /\ Did(c, "crawl investor_site", "ok") /\ Did(c, "crawl company_url", "ok")
        /\ investorText[c] # companyText[c]
        /\ investorText[c] = "## Home (" \o TriggerRow(trig[c]).investor_site \o ")\n..."

\* ----- the order of a cycle's calls --------------------------------------
CallOrder(rv) ==
    <<"select", "crawl investor_site", "crawl company_url", "threads.create",
      "messages.create", "runs.create", "runs.retrieve", "messages.list">>
    \o (IF rv = "r1" THEN OrderReportStatusAudit ELSE OrderReportAuditStatus)

\* the await the cycle is suspended at is the call that follows its last one
NextCallAt(label) ==
    CASE label = "select" -> "select"
      [] label = "crawlInvestor" -> "crawl investor_site"
      [] label = "crawlCompany" -> "crawl company_url"
      [] label = "threadCreate" -> "threads.create"
      [] label = "messageCreate" -> "messages.create"
      [] label = "runCreate" -> "runs.create"
      [] label \in {"retrieve", "sleep"} -> "runs.retrieve"
      [] label = "list" -> "messages.list"
      [] label = "insertReport" -> "insert CompanyAssessments"
      [] label = "insertAudit" -> "insert AuditLogs"
      [] label = "updateStatus" -> "update CompanyAssessmentTrigger"
      [] OTHER -> "none"

\* C13: the calls of one cycle are issued one after the other in the fixed
\* order select, investor crawl, company crawl, thread, message, run, status
\* polls, message list, writes: the calls made so far are a prefix of that
\* order, the call the cycle waits for is the next one of it, and the message
\* list follows a poll that answered 'completed'.
C13_SequentialOrder ==
    \A c \in Cycles :
        /\ Len(io[c]) <= Len(CallOrder(rev))
        /\ \A i \in 1..Len(io[c]) : io[c][i].op = CallOrder(rev)[i]
        /\ (pc[c] \notin {"idle", "returned", "caught", "rejected", "retrieve", "sleep"}) =>
               CallOrder(rev)[Len(io[c]) + 1] = NextCallAt(pc[c])
        /\ (pc[c] \in {"retrieve", "sleep"}) =>
               CallOrder(rev)[Len(io[c])] \in {"runs.create", "runs.retrieve"}
        /\ Tried(c, "messages.list") => Did(c, "runs.retrieve", "completed")

\* a cycle has issued every call of the order
C13_Witness ==
    \E c \in Cycles :
        /\ Ops(c) = CallOrder(rev)
        /\ pc[c] = "returned"

\* C14 as stated: a trigger is 'complete' only if the store holds a report
\* row built from its fields, also after a report insert the store rejected.
C14_CompleteHasReport ==
    \A t \in DOMAIN status : status[t] = "complete" => ReportsFor(t) >= 1

\* the cycle has reached its write phase
InWritePhase(c) ==
    \/ WritesOf(c) # <<>>
    \/ pc[c] \in {"insertReport", "insertAudit", "updateStatus"}

\* C15: a cycle reaches its writes only after a poll of its own run answered
\* 'completed'; what it writes as report_json is the text of the first
\* message listed for its own thread, whatever the other cycles are doing.
C15_WritesAfterCompleted ==
    /\ \A c \in Cycles :
          InWritePhase(c) =>
              /\ Did(c, "runs.retrieve", "completed")
              /\ runStatus[c] = "completed"
              /\ Did(c, "messages.list", "ok")
              /\ result[c] = messages[c][1].text
              /\ Did(c, "insert CompanyAssessments", "ok") =>
                    CountRows(assessments,
                              ReportRow(TriggerRow(trig[c]), messages[c][1].text)) >= 1
    /\ \A i \in 1..Len(assessments) :
          \E c \in Cycles :
              /\ Did(c, "insert CompanyAssessments", "ok")
              /\ assessments[i] = ReportRow(TriggerRow(trig[c]), messages[c][1].text)
    /\ Len(auditLogs) > 0 =>
          \E c \in Cycles : Did(c, "runs.retrieve", "completed")
    /\ \A t \in DOMAIN status : status[t] = "complete" =>
          \E c \in Cycles : trig[c] = t /\ Did(c, "runs.retrieve", "completed")

\* a cycle wrote its report while the run of an overlapping cycle was still
\* in progress
C15_Witness ==
    \E c \in Cycles : \E d \in Cycles \ {c} :
        /\ Did(c, "insert CompanyAssessments", "ok")
        /\ pc[d] \in {"retrieve", "sleep"} /\ runStatus[d] = "in_progress"

\* ----- what a step may change in the store --------------------------------
StatusValues == \A t \in DOMAIN status : status[t] \in {"queued", "complete"}
StatusOnlyCompletes ==
    /\ DOMAIN status' = DOMAIN status
    /\ \A t \in DOMAIN status :
          status'[t] # status[t] => (status[t] = "queued" /\ status'[t] = "complete")
SelectsOnlyQueued ==
    \A c \in Cycles :
        trig'[c] # trig[c] =>
            /\ trig[c] = 0 /\ pc[c] = "select"
            /\ trig'[c] \in DOMAIN status /\ status[trig'[c]] = "queued"
\* a cycle crawls and writes for the trigger it selected and for no other
KeepsItsTrigger ==
    \A c \in Cycles : pc[c] \notin {"idle", "select"} => trig'[c] = trig[c]

\* C17: the only change ever made to a status is 'queued' to 'complete'; a
\* cycle takes a trigger only at its select and only while the trigger is
\* 'queued', and works on that trigger until it ends.
C17_QueuedToCompleteOnly ==
    [](StatusValues) /\ [][StatusOnlyCompletes /\ SelectsOnlyQueued /\ KeepsItsTrigger]_vars

\* after a cycle completed a trigger, a later cycle polled and left it alone
C17_Witness ==
    \E c \in Cycles : \E d \in Cycles :
        /\ c < d
        /\ Did(c, "update CompanyAssessmentTrigger", "ok")
        /\ status[trig[c]] = "complete"
        /\ Ended(d) /\ Did(d, "select", "ok") /\ trig[d] # trig[c]
        /\ ReportsFor(trig[c]) = 1

IsPrefix(old, new) ==
    /\ Len(old) <= Len(new)
    /\ \A i \in 1..Len(old) : new[i] = old[i]
ChangedStatuses == {t \in DOMAIN status : status'[t] # status[t]}
OnlyOwnTrigger ==
    /\ DOMAIN status' = DOMAIN status
    /\ Cardinality(ChangedStatuses) <= 1
    /\ \A t \in ChangedStatuses :
          \E c \in Cycles :
              /\ pc[c] = "updateStatus" /\ pc'[c] # pc[c]
              /\ trig[c] = t
InsertOnly ==
    /\ IsPrefix(assessments, assessments')
    /\ IsPrefix(auditLogs, auditLogs')
    /\ Len(assessments') <= Len(assessments) + 1
    /\ Len(auditLogs') <= Len(auditLogs) + 1

\* C18: a step changes the status of at most one trigger, the one selected by
\* the cycle whose update it is; rows of CompanyAssessments and AuditLogs are
\* only ever appended, never changed or removed.
C18_OnlyOwnTriggerChanges == [][OnlyOwnTrigger /\ InsertOnly]_vars

\* a cycle marked its trigger while another trigger stayed 'queued'
C18_Witness ==
    \E c \in Cycles : \E t \in DOMAIN status :
        /\ Did(c, "update CompanyAssessmentTrigger", "ok")
        /\ t # trig[c] /\ status[t] = "queued"
        /\ Len(assessments) >= 1 /\ Len(auditLogs) >= 1

\* ----- the service over an unbounded number of timer firings -------------
\* (a timer that is cleared after its first MaxCycles firings)
TimerRefire_Cleared(c) ==
    /\ alive
    /\ fired < 0
    /\ Ended(c)
    /\ UNCHANGED vars

\* setInterval(run, ...) starts a fresh run() at every firing; the locals of a
\* run() that ended are gone, so its slot is taken by the new invocation.
TimerRefire(c) ==
    /\ alive
    /\ fired = MaxCycles
    /\ Ended(c)
    /\ pc' = [pc EXCEPT ![c] = "select"]
    /\ trig' = [trig EXCEPT ![c] = 0]
    /\ investorText' = [investorText EXCEPT ![c] = NoText]
    /\ companyText' = [companyText EXCEPT ![c] = NoText]
    /\ messages' = [messages EXCEPT ![c] = <<>>]
    /\ runStatus' = [runStatus EXCEPT ![c] = "none"]
    /\ result' = [result EXCEPT ![c] = NoResult]
    /\ io' = [io EXCEPT ![c] = <<>>]
    /\ console' = [console EXCEPT ![c] = <<>>]
    /\ UNCHANGED <<rev, alive, fired, status, assessments, auditLogs, faults, crawlVars>>

\* every run ends 'completed': the service never ends one in another status
NextLive ==
    \/ TimerFire
    \/ \E c \in Cycles : TimerRefire(c)
    \/ \E c \in Cycles : Step(c)
    \/ \E c \in Cycles : RunCompletes(c)

\* every call eventually succeeds: one call may still fail, the later ones succeed
InitLive ==
    /\ rev \in Revisions
    /\ alive = TRUE
    /\ fired = 0
    /\ \E n \in 0..MaxTriggers : status = [t \in 1..n |-> "queued"]
    /\ assessments = <<>>
    /\ auditLogs = <<>>
    /\ pc = [c \in Cycles |-> "idle"]
    /\ trig = [c \in Cycles |-> 0]
    /\ investorText = [c \in Cycles |-> NoText]
    /\ companyText = [c \in Cycles |-> NoText]
    /\ messages = [c \in Cycles |-> <<>>]
    /\ runStatus = [c \in Cycles |-> "none"]
    /\ result = [c \in Cycles |-> NoResult]
    /\ io = [c \in Cycles |-> <<>>]
    /\ console = [c \in Cycles |-> <<>>]
    /\ faults = MaxFaults - 1
    /\ crawlIn = Rejects
    /\ crawlOut = Idle

\* the timer keeps firing, every pending await settles, every run completes
Fairness ==
    /\ WF_vars(TimerFire \/ \E c \in Cycles : TimerRefire(c))
    /\ \A c \in Cycles : WF_vars(Step(c))
    /\ \A c \in Cycles : WF_vars(RunCompletes(c))

SpecLive == InitLive /\ [][NextLive]_vars /\ Fairness

AllComplete == \A t \in DOMAIN status : status[t] = "complete"

\* C16: while the process lives (the timer keeps firing), the service reaches a
\* point from which every trigger of the queue is 'complete', whatever the
\* overlap of the cycles and whichever call failed before it succeeded. No
\* trigger is queued after Init and a status never goes back, so this is:
\* every queued trigger eventually becomes 'complete'.
C16_QueuedEventuallyComplete == <>[](alive => AllComplete)

\* every trigger of a full queue is complete, after failed calls and after two
\* cycles wrote a report for the same trigger
C16_Witness ==
    /\ DOMAIN status = Triggers
    /\ \A t \in Triggers : status[t] = "complete"
    /\ faults > 0
    /\ \E t \in Triggers : ReportsFor(t) >= 2
    /\ alive

====
